---- MODULE Spec2Model ----
(***************************************************************************)
(* Model of gdrive_folder_uploader (src/client.py).                        *)
(*                                                                         *)
(* Worker processes run main(): optionally cache the local files in a     *)
(* Redis set (cache_upload_files), resolve the destination folder on      *)
(* Google Drive (get_folder_id), then pop paths from the set and upload    *)
(* them (upload_files).  Every call to Drive or Redis is one atomic step  *)
(* together with the Python code that follows it up to the next call; the *)
(* start of main and the end of the caching loop are steps of their own.  *)
(*                                                                         *)
(* Strings are sequences of one-character strings, so that strip, split   *)
(* and Path.name are computed rather than assumed.                        *)
(***************************************************************************)
EXTENDS Integers, Sequences, FiniteSets, TLC

(***************************** bounds **************************************)
NumWorkers == 2
MaxFiles == 2
MaxDstLen == 3
MaxSharedDstLen == 1
MaxSharedFiles == 1

Workers == 1..NumWorkers

(************************ values of the program ****************************)
Root == 0
None == -1
NoFile == <<"None">>

Alphabet == {"/", "a", "b"}

RECURSIVE StringsUpTo(_)
StringsUpTo(n) ==
    IF n = 0 THEN {<<>>}
    ELSE LET S == StringsUpTo(n - 1)
         IN  S \cup {Append(s, c) : s \in {t \in S : Len(t) = n - 1}, c \in Alphabet}

DstStrings == StringsUpTo(MaxDstLen)

\* pathlib.Path objects of the --src directory "d"
LocalPath(n) == [parent |-> <<"d">>, name |-> n]

AllLocal ==
    << LocalPath(<<"x">>), LocalPath(<<"y">>), LocalPath(<<"a">>), LocalPath(<<"b">>) >>

LocalDirs == {{AllLocal[i] : i \in 1..k} : k \in 0..MaxFiles}

SharedDirs == {{AllLocal[i] : i \in 1..k} : k \in 0..MaxSharedFiles}

(**************************** str methods **********************************)
RECURSIVE lstrip(_)
lstrip(s) == IF s # <<>> /\ Head(s) = "/" THEN lstrip(Tail(s)) ELSE s

RECURSIVE rstrip(_)
rstrip(s) ==
    IF s # <<>> /\ s[Len(s)] = "/" THEN rstrip(SubSeq(s, 1, Len(s) - 1)) ELSE s

strip(s) == rstrip(lstrip(s))

RECURSIVE splitAcc(_, _, _)
splitAcc(s, cur, out) ==
    IF s = <<>> THEN Append(out, cur)
    ELSE IF Head(s) = "/" THEN splitAcc(Tail(s), <<>>, Append(out, cur))
    ELSE splitAcc(Tail(s), Append(cur, Head(s)), out)

split(s) == splitAcc(s, <<>>, <<>>)

Last(q) == q[Len(q)]

\* str(file) of a Path
str(p) == p.parent \o <<"/">> \o p.name

\* Path(local_file).name: the final component of the path string
PathName(s) == Last(split(rstrip(s)))

\* --dst of the concurrent runs: written without leading or trailing slash
SharedDstStrings == {s \in StringsUpTo(MaxSharedDstLen) : strip(s) = s}

(**************************** Google Drive *********************************)
Folder == "application/vnd.google-apps.folder"
PlainFile == "application/octet-stream"

Node(i, t, p, m, tr, c) ==
    [id |-> i, title |-> t, parent |-> p, mimeType |-> m, trashed |-> tr, content |-> c]

\* Items that may be on the drive before any worker starts.
Preexisting ==
    { Node(1, <<"a">>, Root, Folder, FALSE, <<>>),
      Node(2, <<"b">>, 1, Folder, FALSE, <<>>),
      Node(3, <<"x">>, 1, PlainFile, FALSE, <<>>) }

InitTrees ==
    {t \in SUBSET Preexisting :
        \A n \in t : n.parent = Root \/ \E m \in t : m.id = n.parent}

\* Further items a drive may hold: a file that carries a folder's name, a
\* second folder of the same name, a trashed folder, a trashed file.
Clutter ==
    { Node(4, <<"b">>, Root, PlainFile, FALSE, <<>>),
      Node(5, <<"a">>, Root, Folder, FALSE, <<>>),
      Node(6, <<"b">>, Root, Folder, TRUE, <<>>),
      Node(7, <<"x">>, 1, PlainFile, TRUE, <<>>) }

ClutterTrees ==
    {t \in SUBSET ({n \in Preexisting : n.id = 1} \cup Clutter) :
        /\ t \cap Clutter # {}
        /\ \A n \in t : n.parent = Root \/ \E m \in t : m.id = n.parent}

FirstFreeId == 8

\* Drive assigns an identifier to every item it stores; the program only
\* relies on identifiers being distinct.  The n-th item a client stores gets
\* the n-th identifier of that client's range.
NewId(w, n) == FirstFreeId + n * NumWorkers + (w - 1)

RECURSIVE SortAsc(_)
SortAsc(S) ==
    IF S = {} THEN <<>>
    ELSE LET m == CHOOSE x \in S : \A y \in S : x <= y
         IN  <<m>> \o SortAsc(S \ {m})

Reverse(q) == [i \in 1..Len(q) |-> q[Len(q) + 1 - i]]

NodeOf(fs, i) == CHOOSE n \in fs : n.id = i

ListFile_with_trashed(fs, par, ord) ==
    LET ids == {n.id : n \in {m \in fs : m.parent = par}}
        asc == SortAsc(ids)
        seq == IF ord = "asc" THEN asc ELSE Reverse(asc)
    IN  [i \in 1..Len(seq) |-> NodeOf(fs, seq[i])]

\* ListFile({'q': "'<parent>' in parents and trashed=false"}).GetList()
\* The order of the listing is the service's: a fixed order of the items
\* that the program does not control, here by identifier, up or down.
ListFile(fs, par, ord) ==
    LET ids == {n.id : n \in {m \in fs : m.parent = par /\ ~m.trashed}}
        asc == SortAsc(ids)
        seq == IF ord = "asc" THEN asc ELSE Reverse(asc)
    IN  [i \in 1..Len(seq) |-> NodeOf(fs, seq[i])]

FirstMatch_never(file_list, name) == 0

FirstMatch_last(file_list, name) ==
    LET hits == {i \in 1..Len(file_list) : file_list[i].title = name}
    IN  IF hits = {} THEN 0 ELSE CHOOSE i \in hits : \A j \in hits : i >= j

\* index of the first file of the listing whose title is the name, 0 if none
FirstMatch(file_list, name) ==
    LET hits == {i \in 1..Len(file_list) : file_list[i].title = name}
    IN  IF hits = {} THEN 0 ELSE CHOOSE i \in hits : \A j \in hits : i <= j

(******************************* Redis *************************************)
sadd_replace(q, x) == {x}

\* redis_client.sadd(key, x)
sadd(q, x) == q \cup {x}

spop_keep(q, x) == q

\* what redis_client.spop(key) leaves in the set when it returns x
spop_rest(q, x) == q \ {x}

\* redis_client.scard
scard(q) == Cardinality(q)

ProgressEvery == 50

\* set(local_files).difference(existing_files): the listing holds
\* GoogleDriveFile objects (dict subclasses, unhashable), the set holds Path
\* objects.  Discarding an unhashable element raises TypeError; an empty
\* listing discards nothing.
difference_raises(existing_files) == Len(existing_files) > 0

VARIABLES
    files, nextId, order,          \* the drive, items stored by each client, listing order
    queue,                         \* the Redis set 'gdrive_upload'
    localDir,                      \* the files of the --src directory
    dst, src, overwrite,           \* command line of each worker
    pc, err,                       \* position of each worker, exception raised
    phase,                         \* caller of get_folder_id: "seed" or "drain"
    folder_path, dst_folder_name,  \* locals of get_folder_id
    parent_folder_id, folder_name, \* locals of search_file_tree
    made, before,                  \* folders created by, drive at start of, the call
    dst_folder_id, local_files, todo,   \* locals of cache_upload_files
    dst_dir_id, local_file, count,      \* locals of upload_files
    remaining,                     \* last queue size read for the progress log
    log,                           \* completed get_folder_id calls of each worker
    taken,                         \* results of each worker's spop calls, in order
    listing,                       \* how each worker's last listing in search_file_tree ended
    message                        \* the folder named by the exception a worker raised

drive == <<files, nextId>>
argv == <<dst, src, overwrite, order, localDir>>
resolver == <<phase, folder_path, dst_folder_name, parent_folder_id, folder_name, made, before>>
returned == <<log, dst_folder_id, dst_dir_id, count>>
cacher == <<local_files, todo, remaining>>
faults == <<listing, message>>
vars == <<files, nextId, order, queue, localDir, dst, src, overwrite, pc, err,
          phase, folder_path, dst_folder_name, parent_folder_id, folder_name,
          made, before, dst_folder_id, local_files, todo, dst_dir_id,
          local_file, count, remaining, log, taken, listing, message>>

InitLocals ==
    /\ err = [w \in Workers |-> "none"]
    /\ phase = [w \in Workers |-> "none"]
    /\ folder_path = [w \in Workers |-> <<>>]
    /\ dst_folder_name = [w \in Workers |-> <<>>]
    /\ parent_folder_id = [w \in Workers |-> None]
    /\ folder_name = [w \in Workers |-> <<>>]
    /\ made = [w \in Workers |-> <<>>]
    /\ before = [w \in Workers |-> {}]
    /\ dst_folder_id = [w \in Workers |-> None]
    /\ local_files = [w \in Workers |-> {}]
    /\ todo = [w \in Workers |-> {}]
    /\ dst_dir_id = [w \in Workers |-> None]
    /\ local_file = [w \in Workers |-> NoFile]
    /\ count = [w \in Workers |-> 0]
    /\ remaining = [w \in Workers |-> None]
    /\ log = [w \in Workers |-> <<>>]
    /\ taken = [w \in Workers |-> <<>>]
    /\ listing = [w \in Workers |-> "none"]
    /\ message = [w \in Workers |-> <<>>]

InitDrive ==
    /\ files \in InitTrees
    /\ nextId = [w \in Workers |-> 0]
    /\ order \in {"asc", "desc"}

\* The invocations that may carry --src in the concurrent specification.
Seeders == {w \in Workers : w <= 2}

\* Two invocations started with the same --dst and an empty queue, each with
\* or without --src and --overwrite_existing (which only matters with --src).
Init ==
    /\ InitDrive
    /\ InitLocals
    /\ queue = {}
    /\ localDir \in SharedDirs
    /\ \E d \in SharedDstStrings : dst = [w \in Workers |-> d]
    /\ src \in [Workers -> BOOLEAN]
    /\ overwrite \in [Workers -> BOOLEAN]
    /\ \A w \in Workers : (overwrite[w] => src[w]) /\ (src[w] => w \in Seeders)
    /\ pc = [w \in Workers |-> IF w \in Seeders THEN "main" ELSE "off"]

\* Workers started without --src, with the same --dst, against a fresh drive
\* and a queue that a seeding run has filled.
InitDrain ==
    /\ files = {}
    /\ nextId = [w \in Workers |-> 0]
    /\ order \in {"asc", "desc"}
    /\ InitLocals
    /\ localDir \in LocalDirs
    /\ queue = {str(f) : f \in localDir}
    /\ \E d \in SharedDstStrings : dst = [w \in Workers |-> d]
    /\ src = [w \in Workers |-> FALSE]
    /\ overwrite = [w \in Workers |-> FALSE]
    /\ pc = [w \in Workers |-> "main"]

\* One invocation, with any command line.
InitAlone ==
    /\ InitDrive
    /\ InitLocals
    /\ localDir \in LocalDirs
    /\ \E d \in DstStrings : dst = [w \in Workers |-> IF w = 1 THEN d ELSE <<>>]
    /\ \E b \in BOOLEAN : src = [w \in Workers |-> w = 1 /\ b]
    /\ \E b \in BOOLEAN : overwrite = [w \in Workers |-> w = 1 /\ b]
    /\ pc = [w \in Workers |-> IF w = 1 THEN "main" ELSE "off"]

\* One invocation, alone, on an empty queue.
InitSolo == InitAlone /\ queue = {}

\* One invocation, alone, on an empty queue or on the queue that an earlier
\* seeding of the same directory left untouched.
InitRerun == InitAlone /\ queue \in {{}, {str(f) : f \in localDir}}

\* One invocation, alone, on an empty queue, against a drive that holds
\* trashed items, files named like folders, or folders of the same name.
InitClutter ==
    /\ files \in ClutterTrees
    /\ nextId = [w \in Workers |-> 0]
    /\ order \in {"asc", "desc"}
    /\ InitLocals
    /\ queue = {}
    /\ localDir \in SharedDirs
    /\ \E d \in DstStrings : dst = [w \in Workers |-> IF w = 1 THEN d ELSE <<>>]
    /\ \E b \in BOOLEAN : src = [w \in Workers |-> w = 1 /\ b]
    /\ overwrite = [w \in Workers |-> FALSE]
    /\ pc = [w \in Workers |-> IF w = 1 THEN "main" ELSE "off"]

(***************************** get_folder_id *******************************)
\* lines 72-74 and the call of line 110
BeginResolve(w, ph) ==
    /\ phase' = [phase EXCEPT ![w] = ph]
    /\ folder_path' = [folder_path EXCEPT ![w] = split(strip(dst[w]))]
    /\ dst_folder_name' = [dst_folder_name EXCEPT ![w] = Last(split(strip(dst[w])))]
    /\ parent_folder_id' = [parent_folder_id EXCEPT ![w] = Root]
    /\ made' = [made EXCEPT ![w] = <<>>]
    /\ before' = [before EXCEPT ![w] = files]
    /\ pc' = [pc EXCEPT ![w] = "search"]
    /\ UNCHANGED folder_name

\* return of get_folder_id to its caller: line 150 or line 127
Return(w, id, mk) ==
    /\ log' = [log EXCEPT ![w] =
                 Append(@, [path |-> dst[w], id |-> id, made |-> mk, before |-> before[w]])]
    /\ IF phase[w] = "seed"
       THEN /\ dst_folder_id' = [dst_folder_id EXCEPT ![w] = id]
            /\ pc' = [pc EXCEPT ![w] = "list_existing"]
            /\ UNCHANGED <<dst_dir_id, count>>
       ELSE /\ dst_dir_id' = [dst_dir_id EXCEPT ![w] = id]
            /\ count' = [count EXCEPT ![w] = 0]
            /\ pc' = [pc EXCEPT ![w] = "spop"]
            /\ UNCHANGED dst_folder_id

Raise(w, e) ==
    /\ pc' = [pc EXCEPT ![w] = "crashed"]
    /\ err' = [err EXCEPT ![w] = e]

file_not_found_never(o) == FALSE

\* line 87: the message of the HttpError contains "file not found"
file_not_found(o) == o = "notfound"

\* search_file_tree, lines 77-101: pop a segment, list the parent, look for
\* the title.  The listing ends "ok", or with an HttpError whose message
\* says "file not found" ("notfound"), or with any other HttpError.
SearchStep(w, outcomes) ==
    /\ pc[w] = "search"
    /\ UNCHANGED <<drive, queue, argv, phase, dst_folder_name, made, before,
                   cacher, local_file, taken>>
    /\ IF folder_path[w] = <<>>
       THEN /\ Return(w, None, made[w])
            /\ UNCHANGED <<folder_path, folder_name, parent_folder_id, err, faults>>
       ELSE \E o \in outcomes :
            LET name == Head(folder_path[w])
                file_list == ListFile(files, parent_folder_id[w], order)
                m == FirstMatch(file_list, name)
            IN  /\ folder_path' = [folder_path EXCEPT ![w] = Tail(@)]
                /\ folder_name' = [folder_name EXCEPT ![w] = name]
                /\ listing' = [listing EXCEPT ![w] = o]
                /\ CASE o = "ok" /\ m # 0 /\ name = dst_folder_name[w] ->
                          /\ Return(w, file_list[m].id, made[w])
                          /\ UNCHANGED <<parent_folder_id, err, message>>
                     [] o = "ok" /\ m # 0 /\ name # dst_folder_name[w] ->
                          /\ parent_folder_id' = [parent_folder_id EXCEPT ![w] = file_list[m].id]
                          /\ UNCHANGED <<pc, err, returned, message>>
                     [] o = "ok" /\ m = 0 ->
                          /\ pc' = [pc EXCEPT ![w] = "create"]
                          /\ UNCHANGED <<parent_folder_id, err, returned, message>>
                     [] o # "ok" /\ file_not_found(o) ->
                          \* ValueError(f"Folder {folder_name} was not found ...")
                          /\ Raise(w, "ValueError")
                          /\ message' = [message EXCEPT ![w] = name]
                          /\ UNCHANGED <<parent_folder_id, returned>>
                     [] OTHER ->
                          \* logger.error, then line 94 reads the unassigned file_list
                          /\ Raise(w, "UnboundLocalError")
                          /\ UNCHANGED <<parent_folder_id, returned, message>>

create_gdrive_folder_if_absent(fs, id, name, par) ==
    IF \E n \in fs : n.title = name /\ n.parent = par /\ ~n.trashed THEN fs
    ELSE fs \cup {Node(id, name, par, Folder, FALSE, <<>>)}

\* create_gdrive_folder, lines 52-67
create_gdrive_folder(fs, id, name, par) ==
    fs \cup {Node(id, name, par, Folder, FALSE, <<>>)}

\* search_file_tree, lines 103-108
CreateStep(w) ==
    /\ pc[w] = "create"
    /\ files' = create_gdrive_folder(files, NewId(w, nextId[w]), folder_name[w],
                                     parent_folder_id[w])
    /\ nextId' = [nextId EXCEPT ![w] = @ + 1]
    /\ made' = [made EXCEPT ![w] = Append(@, NewId(w, nextId[w]))]
    /\ UNCHANGED <<queue, argv, phase, folder_path, dst_folder_name, folder_name,
                   before, cacher, local_file, taken, err, faults>>
    /\ IF folder_name[w] = dst_folder_name[w]
       THEN /\ Return(w, NewId(w, nextId[w]), Append(made[w], NewId(w, nextId[w])))
            /\ UNCHANGED parent_folder_id
       ELSE /\ parent_folder_id' = [parent_folder_id EXCEPT ![w] = NewId(w, nextId[w])]
            /\ pc' = [pc EXCEPT ![w] = "search"]
            /\ UNCHANGED returned

(*************************** cache_upload_files ****************************)
Main_take_first(w) ==
    /\ pc[w] = "main"
    /\ pc' = [pc EXCEPT ![w] = "spop"]
    /\ UNCHANGED <<drive, queue, argv, err, resolver, returned, cacher, local_file,
                   taken, faults>>

\* main, lines 200-208, up to the first call to Drive or Redis.
\* get_local_files without patterns returns the entries of the directory.
Main(w) ==
    /\ pc[w] = "main"
    /\ UNCHANGED <<drive, queue, argv, err, returned, local_file, taken, remaining,
                   faults>>
    /\ IF src[w]
       THEN /\ local_files' = [local_files EXCEPT ![w] = localDir]
            /\ IF ~overwrite[w]
               THEN /\ BeginResolve(w, "seed")
                    /\ UNCHANGED todo
               ELSE /\ todo' = [todo EXCEPT ![w] = localDir]
                    /\ pc' = [pc EXCEPT ![w] = "sadd"]
                    /\ UNCHANGED resolver
       ELSE /\ BeginResolve(w, "drain")
            /\ UNCHANGED <<local_files, todo>>

\* lines 151-159: list the destination folder, subtract the listing
ListExisting(w, outcomes) ==
    /\ pc[w] = "list_existing"
    /\ UNCHANGED <<drive, queue, argv, resolver, returned, local_file, taken, remaining,
                   faults>>
    /\ \E o \in outcomes :
         LET existing_files == ListFile(files, dst_folder_id[w], order)
         IN  IF o = "ok" /\ ~difference_raises(existing_files)
             THEN /\ todo' = [todo EXCEPT ![w] = local_files[w]]
                  /\ pc' = [pc EXCEPT ![w] = "sadd"]
                  /\ UNCHANGED <<local_files, err>>
             ELSE /\ Raise(w, IF o = "ok" THEN "TypeError" ELSE "HttpError")
                  /\ UNCHANGED <<local_files, todo>>

\* lines 160-161: one iteration of the loop
SaddStep(w) ==
    /\ pc[w] = "sadd"
    /\ \E f \in todo[w] :
         /\ queue' = sadd(queue, str(f))
         /\ todo' = [todo EXCEPT ![w] = @ \ {f}]
    /\ UNCHANGED <<drive, argv, pc, err, resolver, returned, local_files,
                   local_file, taken, remaining, faults>>

\* lines 162, 208, 127: the loop is over, upload_files starts
FinishCaching(w) ==
    /\ pc[w] = "sadd"
    /\ todo[w] = {}
    /\ BeginResolve(w, "drain")
    /\ UNCHANGED <<drive, queue, argv, err, returned, cacher, local_file, taken, faults>>

(****************************** upload_files *******************************)
\* lines 133-137
SpopStep(w) ==
    /\ pc[w] = "spop"
    /\ UNCHANGED <<drive, argv, err, resolver, returned, cacher, faults>>
    /\ IF queue = {}
       THEN /\ local_file' = [local_file EXCEPT ![w] = NoFile]
            /\ taken' = [taken EXCEPT ![w] = Append(@, NoFile)]
            /\ pc' = [pc EXCEPT ![w] = "done"]
            /\ UNCHANGED queue
       ELSE \E x \in queue :
            /\ queue' = spop_rest(queue, x)
            /\ local_file' = [local_file EXCEPT ![w] = x]
            /\ taken' = [taken EXCEPT ![w] = Append(@, x)]
            /\ pc' = [pc EXCEPT ![w] = "upload"]

upload_file_lost(fs, id, path, par) == fs

upload_file_at_root(fs, id, path, par) ==
    fs \cup {Node(id, PathName(path), Root, PlainFile, FALSE, path)}

\* upload_file, lines 113-123
upload_file(fs, id, path, par) ==
    fs \cup {Node(id, PathName(path), par, PlainFile, FALSE, path)}

\* lines 138-142
UploadStep(w) ==
    /\ pc[w] = "upload"
    /\ files' = upload_file(files, NewId(w, nextId[w]), local_file[w], dst_dir_id[w])
    /\ nextId' = [nextId EXCEPT ![w] = @ + 1]
    /\ count' = [count EXCEPT ![w] = @ + 1]
    /\ remaining' = IF (count[w] + 1) % ProgressEvery = 0
                    THEN [remaining EXCEPT ![w] = scard(queue)]
                    ELSE remaining
    /\ pc' = [pc EXCEPT ![w] = "spop"]
    /\ UNCHANGED <<queue, argv, err, resolver, log, dst_folder_id, dst_dir_id,
                   local_files, todo, local_file, taken, faults>>

\* line 138: upload_file raises (SetContentFile cannot read the file, or
\* Upload fails) and nothing is stored; upload_files does not catch it.
UploadFails(w) ==
    /\ pc[w] = "upload"
    /\ Raise(w, "ApiRequestError")
    /\ UNCHANGED <<drive, queue, argv, resolver, returned, cacher, local_file,
                   taken, faults>>

\* The process is terminated from outside, wherever it is.
Kill(w) ==
    /\ pc[w] \in {"main", "search", "create", "list_existing", "sadd", "spop", "upload"}
    /\ Raise(w, "killed")
    /\ UNCHANGED <<drive, queue, argv, resolver, returned, cacher, local_file,
                   taken, faults>>

(***************************** specifications ******************************)
Ok == {"ok"}

Drain(w) ==
    \/ Main(w)
    \/ SearchStep(w, Ok)
    \/ CreateStep(w)
    \/ SpopStep(w)
    \/ UploadStep(w)

Cache(w) ==
    \/ ListExisting(w, Ok)
    \/ SaddStep(w)
    \/ FinishCaching(w)

Next == \E w \in Workers : Drain(w) \/ Cache(w)

Spec == Init /\ [][Next]_vars

SpecSolo == InitSolo /\ [][Next]_vars

SpecRerun == InitRerun /\ [][Next]_vars

NextDrain == \E w \in Workers : Drain(w)

SpecDrain == InitDrain /\ [][NextDrain]_vars

\* The same workers, all started with --dst a.
InitFair == InitDrain /\ order = "asc" /\ dst = [w \in Workers |-> <<"a">>]

\* The workers are running processes and every call they make returns: as
\* long as some worker has a step to take, a step is taken.
FairSpecDrain == InitFair /\ [][NextDrain]_vars /\ WF_vars(NextDrain)

\* The ways a call to Drive can end.
AnyOutcome == {"ok", "notfound", "other"}

Faulty(w) ==
    \/ Main(w)
    \/ SearchStep(w, AnyOutcome)
    \/ CreateStep(w)
    \/ ListExisting(w, AnyOutcome)
    \/ SaddStep(w)
    \/ FinishCaching(w)
    \/ SpopStep(w)
    \/ UploadStep(w)

NextFaulty == \E w \in Workers : Faulty(w)

\* One invocation, alone, whose listing calls can fail.
SpecFaulty == InitSolo /\ [][NextFaulty]_vars

SpecClutter == InitClutter /\ [][Next]_vars

\* Workers started without --src and with --dst a on a seeded queue, whose
\* calls to Drive can fail and which can be killed.
NextDrainFaulty ==
    \E w \in Workers :
        \/ Main(w)
        \/ SearchStep(w, AnyOutcome)
        \/ CreateStep(w)
        \/ SpopStep(w)
        \/ UploadStep(w)
        \/ UploadFails(w)
        \/ Kill(w)

SpecDrainFaulty == InitFair /\ [][NextDrainFaulty]_vars

(******************************** properties *******************************)
Seeded == {str(f) : f \in localDir}

AllDone == \A w \in Workers : pc[w] = "done"

\* the remote files whose bytes came from the local path s
UploadsOf(s) == {n \in files : n.mimeType = PlainFile /\ n.content = s}

\* cache_upload_files of worker w has returned
SeedDone(w) == src[w] /\ phase[w] = "drain"

\* the spop calls so far: <<worker, index in its results>>
Takes == UNION {{<<w, i>> : i \in 1..Len(taken[w])} : w \in Workers}

ItemOf(t) == taken[t[1]][t[2]]

NoTakeYet == \A t \in Takes : ItemOf(t) = NoFile

\* C1: on a queue seeded with N distinct items and never refilled, under any
\* interleaving of the workers' spop calls only seeded items are returned,
\* no item is returned by two calls, and a call returns nothing only when
\* all N items have been returned.
C1_EachItemToOneCaller ==
    /\ \A t \in Takes : ItemOf(t) # NoFile => ItemOf(t) \in Seeded
    /\ \A t, u \in Takes : (t # u /\ ItemOf(t) = ItemOf(u)) => ItemOf(t) = NoFile
    /\ (\E t \in Takes : ItemOf(t) = NoFile) =>
          Seeded \subseteq {ItemOf(t) : t \in Takes}

C1_Witness ==
    /\ Cardinality(Seeded) >= 2
    /\ \E t, u, v \in Takes :
         /\ ItemOf(t) # NoFile /\ ItemOf(u) # NoFile /\ t[1] # u[1]
         /\ ItemOf(v) = NoFile

\* C2 as stated: whichever workers seed, no local path is uploaded twice.
C2_NoDoubleUploadAnySeeders ==
    \A f \in localDir : Cardinality(UploadsOf(str(f))) <= 1

\* C2 amended: on a queue that is empty when the workers start, when at most
\* one worker performs the seeding step, no local path is uploaded twice.
C2_NoDoubleUploadOneSeeder ==
    Cardinality({w \in Workers : src[w]}) <= 1 =>
        \A f \in localDir : Cardinality(UploadsOf(str(f))) <= 1

C2_Witness ==
    /\ Cardinality({w \in Workers : src[w]}) = 1
    /\ \A w \in Seeders : pc[w] = "done"
    /\ \E w \in Seeders : ~src[w] /\ count[w] >= 1

\* C3: with the items seeded once and no failure, under fair scheduling the
\* run reaches the state where every worker has stopped on an spop that
\* returned nothing, and there (a state no worker leaves) the queue is empty
\* and every seeded item has been uploaded.
C3_DrainCompletes ==
    <>(/\ \A w \in Workers : pc[w] = "done" /\ local_file[w] = NoFile
       /\ queue = {}
       /\ \A s \in Seeded : UploadsOf(s) # {})

C3_Witness ==
    /\ AllDone
    /\ Cardinality(Seeded) >= 2
    /\ \A w \in Workers : count[w] >= 1

\* the non-trashed folders named name directly under par
FolderChildren(fs, par, name) ==
    {n \in fs : n.parent = par /\ n.title = name /\ n.mimeType = Folder /\ ~n.trashed}

\* number of trailing segments of segs that have no folder along root/s1/.../sn
RECURSIVE Missing(_, _, _)
Missing(fs, par, segs) ==
    IF segs = <<>> THEN 0
    ELSE IF FolderChildren(fs, par, Head(segs)) = {} THEN Len(segs)
    ELSE Missing(fs, (CHOOSE n \in FolderChildren(fs, par, Head(segs)) : TRUE).id, Tail(segs))

\* the titles from the root down to the item id
RECURSIVE TitlesTo(_, _)
TitlesTo(fs, id) ==
    IF id = Root \/ id = None THEN <<>>
    ELSE Append(TitlesTo(fs, NodeOf(fs, id).parent), NodeOf(fs, id).title)

Segments(path) == split(strip(path))

\* the completed get_folder_id calls: <<worker, index in its log>>
Calls == UNION {{<<w, i>> : i \in 1..Len(log[w])} : w \in Workers}

\* C4 as stated: seeding without --overwrite_existing ends without error
\* and leaves in the queue exactly the local files whose name is not the
\* title of a file of the destination folder.
C4_SeedSkipsExistingNames ==
    \A w \in Workers :
        (src[w] /\ ~overwrite[w]) =>
            /\ err[w] = "none"
            /\ (SeedDone(w) /\ NoTakeYet) =>
                  queue = {str(f) : f \in
                             {g \in localDir :
                                 \A n \in files :
                                     (n.parent = dst_folder_id[w] /\ ~n.trashed)
                                         => n.title # g.name}}

\* C5 as stated: a resolve creates a folder for exactly the segments that
\* are missing along the chain, each under the folder of the segment before.
C5_CreatesExactlyMissing ==
    \A c \in Calls :
        LET e == log[c[1]][c[2]]
            segs == Segments(e.path)
            n == Len(segs)
            k == Missing(e.before, Root, segs)
        IN  /\ Len(e.made) = k
            /\ \A j \in 1..Len(e.made) :
                  /\ j <= k
                  /\ NodeOf(files, e.made[j]).title = segs[n - k + j]
                  /\ NodeOf(files, e.made[j]).mimeType = Folder
                  /\ j > 1 => NodeOf(files, e.made[j]).parent = e.made[j - 1]
                  /\ TitlesTo(files, e.made[j]) = SubSeq(segs, 1, n - k + j)

\* C6 as stated: a resolve returns the folder reached after walking all n
\* segments from the root.
C6_ReturnsDepthN ==
    \A c \in Calls :
        LET e == log[c[1]][c[2]]
        IN  /\ e.id # None
            /\ TitlesTo(files, e.id) = Segments(e.path)

\* C7: a worker running alone that resolves the same path twice gets the
\* same folder identifier both times, and the second call creates no folder.
C7_ResolveTwiceSame ==
    \A w \in Workers : \A i, j \in 1..Len(log[w]) :
        (i < j /\ log[w][i].path = log[w][j].path) =>
            /\ log[w][j].id = log[w][i].id
            /\ log[w][j].made = <<>>
            /\ {n \in files : n.mimeType = Folder} =
                  {n \in log[w][j].before : n.mimeType = Folder}

C7_Witness ==
    \E w \in Workers :
        /\ Len(log[w]) = 2
        /\ Len(log[w][1].made) = 2
        /\ log[w][2].id = log[w][1].id

\* C8 as stated: a run alone with --src over k files and a destination of n
\* segments none of which exists ends with n folders created, k items
\* enqueued, k uploads all into the resolved folder, and the queue empty.
C8_EndToEnd ==
    \A w \in Workers :
        (/\ pc[w] = "done" /\ src[w]
         /\ Missing(log[w][1].before, Root, Segments(dst[w])) = Len(Segments(dst[w])))
        =>
            /\ Cardinality({n \in files : n.mimeType = Folder /\ n.id >= FirstFreeId})
                  = Len(Segments(dst[w]))
            /\ local_files[w] = localDir /\ todo[w] = {}
            /\ count[w] = Cardinality(localDir)
            /\ \A f \in localDir :
                  /\ Cardinality(UploadsOf(str(f))) = 1
                  /\ \A n \in UploadsOf(str(f)) : n.parent = dst_dir_id[w]
            /\ queue = {}

\* C9 as stated: an empty destination is rejected, and no folder with the
\* empty name is looked up or created.
C9_NoEmptySegment ==
    /\ \A n \in files : n.title # <<>>
    /\ \A w \in Workers :
          /\ pc[w] = "create" => folder_name[w] # <<>>
          /\ strip(dst[w]) = <<>> => pc[w] \in {"off", "main", "crashed"}

\* C10: a sadd of an item the queue holds leaves the queue as it was, and as
\* long as nothing has been taken, the queue after a completed seeding is
\* the same whether or not the same files had been seeded before.
C10_EnqueueIdempotent ==
    /\ []((NoTakeYet /\ \E w \in Workers : SeedDone(w)) => queue = Seeded)
    /\ [][\A w \in Workers : \A f \in todo[w] \ todo'[w] :
              str(f) \in queue => queue' = queue]_vars

\* a seeding of two files has added the first and is about to add the
\* second, and the queue holds both: it held them before the seeding began
C10_Witness ==
    /\ \E w \in Workers :
         /\ pc[w] = "sadd"
         /\ Cardinality(local_files[w]) = 2
         /\ Cardinality(todo[w]) = 1
         /\ \A f \in todo[w] : str(f) \in queue
    /\ queue = Seeded
    /\ NoTakeYet

\* position in the path of the segment get_folder_id of w works on
SegmentIndex(w) == Len(Segments(dst[w])) - Len(folder_path[w])

\* number of get_folder_id calls of w that returned before the current one
EarlierCalls(w) == IF phase[w] = "drain" /\ src[w] /\ ~overwrite[w] THEN 1 ELSE 0

\* C11 as stated: when the listing for a segment fails with an error other
\* than "not found", resolve does not abort: it goes on to create the
\* segment's folder under the current parent and continues.
C11_OtherFailureCreates ==
    \A w \in Workers :
        listing[w] = "other" =>
            /\ err[w] = "none"
            /\ \/ pc[w] = "create"
               \/ /\ made[w] # <<>>
                  /\ NodeOf(files, Last(made[w])).title = folder_name[w]
                  /\ NodeOf(files, Last(made[w])).parent = parent_folder_id[w]

\* C12: when the listing for a segment fails with "not found", resolve
\* raises ValueError naming that segment, returns nothing to its caller, and
\* the only folders it has created are those of earlier segments.
C12_NotFoundAborts ==
    \A w \in Workers :
        /\ listing[w] = "notfound" <=> err[w] = "ValueError"
        /\ err[w] = "ValueError" =>
              /\ pc[w] = "crashed"
              /\ message[w] = Segments(dst[w])[SegmentIndex(w)]
              /\ Len(log[w]) = EarlierCalls(w)
              /\ (IF phase[w] = "seed" THEN dst_folder_id[w] ELSE dst_dir_id[w]) = None
              /\ Len(made[w]) < SegmentIndex(w)
              /\ files \ before[w] = {NodeOf(files, made[w][j]) : j \in 1..Len(made[w])}
              /\ \A j \in 1..Len(made[w]) :
                    \E i \in 1..(SegmentIndex(w) - 1) :
                        NodeOf(files, made[w][j]).title = Segments(dst[w])[i]

\* the listing of the second segment failed after the first segment's
\* folder had been created
C12_Witness ==
    \E w \in Workers :
        /\ err[w] = "ValueError"
        /\ SegmentIndex(w) = 2
        /\ Len(made[w]) = 1

\* the children of the folder w is in that carry the name of its next segment
Carrying(w, trashed) ==
    {n \in files : /\ n.parent = parent_folder_id[w]
                   /\ n.title = Head(folder_path[w])
                   /\ n.trashed = trashed}

\* w takes a step of search_file_tree that lists a folder
Lists(w) == pc[w] = "search" /\ folder_path[w] # <<>> /\ folder_path'[w] # folder_path[w]

\* the child that step went into or returned, None if it found none
Chosen(w) ==
    IF Len(log'[w]) > Len(log[w]) THEN Last(log'[w]).id
    ELSE IF pc'[w] = "search" THEN parent_folder_id'[w]
    ELSE None

\* the one of a set of items that the service lists first
ListedFirst(S) ==
    IF order = "asc" THEN (CHOOSE n \in S : \A m \in S : n.id <= m.id).id
    ELSE (CHOOSE n \in S : \A m \in S : n.id >= m.id).id

\* C13 as stated: resolve goes into, and returns, folders only, and when
\* the only children with the segment's name are not folders it creates a
\* folder for the segment.
C13_OnlyFolders ==
    /\ [](\A c \in Calls : NodeOf(files, log[c[1]][c[2]].id).mimeType = Folder)
    /\ [](\A w \in Workers :
            parent_folder_id[w] \notin {Root, None}
                => NodeOf(files, parent_folder_id[w]).mimeType = Folder)
    /\ [][\A w \in Workers :
            (/\ Lists(w)
             /\ \A n \in Carrying(w, FALSE) : n.mimeType # Folder)
            => pc'[w] = "create"]_vars

\* C16: when several non-trashed children of the current folder carry the
\* segment's name, resolve takes (goes into, or returns as the destination)
\* the one that the listing has first, and creates no folder.
C16_FirstMatchInListingOrder ==
    [][\A w \in Workers :
          (Lists(w) /\ Cardinality(Carrying(w, FALSE)) >= 2)
          => /\ Chosen(w) = ListedFirst(Carrying(w, FALSE))
             /\ files' = files
             /\ made'[w] = made[w]
             /\ pc'[w] # "create"]_vars

\* the listing went from the newest item to the oldest, and of two folders a
\* under the root the newer was taken
C16_Witness ==
    /\ order = "desc"
    /\ Cardinality(FolderChildren(files, Root, <<"a">>)) = 2
    /\ \E w \in Workers : dst_dir_id[w] = 5 /\ made[w] = <<>>

\* C17: resolve never goes into or returns a trashed item, it creates a
\* folder when the only children with the segment's name are trashed, and
\* seeding enqueues every local file when the destination folder holds only
\* trashed items.
C17_TrashedNeverExisting ==
    /\ [](\A c \in Calls : ~NodeOf(files, log[c[1]][c[2]].id).trashed)
    /\ [](\A w \in Workers :
            parent_folder_id[w] \notin {Root, None}
                => ~NodeOf(files, parent_folder_id[w]).trashed)
    /\ [][\A w \in Workers :
            (Lists(w) /\ Carrying(w, FALSE) = {}) => pc'[w] = "create"]_vars
    /\ [][\A w \in Workers :
            (/\ pc[w] = "list_existing" /\ pc'[w] # pc[w]
             /\ \A n \in files : n.parent = dst_folder_id[w] => n.trashed)
            => /\ pc'[w] = "sadd"
               /\ todo'[w] = local_files[w]]_vars

\* a folder b was created under the root, next to the trashed folder b
C17_Witness ==
    /\ \E n \in files : n.title = <<"b">> /\ n.parent = Root /\ n.trashed
    /\ \E w \in Workers :
          /\ Len(made[w]) = 1
          /\ NodeOf(files, made[w][1]).title = <<"b">>
          /\ NodeOf(files, made[w][1]).parent = Root
          /\ dst_dir_id[w] = made[w][1]

\* C14: when two workers given the same destination have each listed the
\* parent before the other created the segment, each creates a folder of its
\* own: the drive then holds two folders of the same name under the same
\* parent, and once both resolves have returned the two workers hold
\* different destination folder identifiers.
C14_EachCreatesItsOwn ==
    \A w, v \in Workers :
        (w # v /\ dst[w] = dst[v] /\ Len(made[w]) >= 1 /\ Len(made[v]) >= 1) =>
            /\ \E n, m \in files :
                  /\ n.id = made[w][1] /\ m.id = made[v][1] /\ n.id # m.id
                  /\ n.title = m.title /\ n.parent = m.parent
                  /\ n.mimeType = Folder /\ m.mimeType = Folder
                  /\ ~n.trashed /\ ~m.trashed
            /\ (log[w] # <<>> /\ log[v] # <<>>) => dst_dir_id[w] # dst_dir_id[v]

\* both workers have resolved the destination, each created its folder, and
\* each has uploaded a file into its own
C14_Witness ==
    \E w, v \in Workers :
        /\ w # v /\ Len(made[w]) = 1 /\ Len(made[v]) = 1
        /\ log[w] # <<>> /\ log[v] # <<>>
        /\ dst_dir_id[w] # dst_dir_id[v]
        /\ Cardinality(FolderChildren(files, Root, Last(Segments(dst[w])))) = 2
        /\ \E n, m \in files :
              /\ n.mimeType = PlainFile /\ m.mimeType = PlainFile
              /\ n.parent = dst_dir_id[w] /\ m.parent = dst_dir_id[v]

\* the items w took and did not upload: upload_files uploads what it takes
\* in the order it takes it
Dropped(w) ==
    {taken[w][i] : i \in {j \in 1..Len(taken[w]) : j > count[w] /\ taken[w][j] # NoFile}}

\* w takes a step
Steps(w) == <<pc[w], folder_path[w], nextId[w], log[w], taken[w]>>' #
            <<pc[w], folder_path[w], nextId[w], log[w], taken[w]>>

\* C15: on a queue that is not seeded again, an item taken by a worker that
\* was then killed, or whose upload failed, is from then on neither in the
\* queue nor uploaded, and no step of any worker adds anything to the queue.
C15_TakenItemLost ==
    /\ [](\A w \in Workers : \A x \in Dropped(w) :
            /\ x \notin queue
            /\ pc[w] = "crashed" => UploadsOf(x) = {})
    /\ [][queue' \subseteq queue]_vars

\* one worker was killed, the upload of another failed, each holding an item;
\* the queue is empty
C15_Witness ==
    /\ queue = {}
    /\ \E w, v \in Workers :
          /\ pc[w] = "crashed" /\ err[w] = "killed" /\ Dropped(w) # {}
          /\ pc[v] = "crashed" /\ err[v] = "ApiRequestError" /\ Dropped(v) # {}
          /\ \A x \in Dropped(w) \cup Dropped(v) : UploadsOf(x) = {}

\* get_folder_id of w raised
ResolveFailed(w) == pc[w] = "crashed" /\ err[w] \in {"ValueError", "UnboundLocalError"}

\* C18: upload_files resolves the destination before it takes anything: a
\* worker that has taken something holds a resolved destination, a worker
\* whose resolve failed has taken nothing, and the steps of a worker up to
\* the return of its resolve leave the queue as it was.
C18_ResolveBeforeTake ==
    /\ [](\A w \in Workers :
            /\ taken[w] # <<>> => (log[w] # <<>> /\ dst_dir_id[w] # None)
            /\ ResolveFailed(w) =>
                  (taken[w] = <<>> /\ local_file[w] = NoFile /\ count[w] = 0))
    /\ [][\A w \in Workers :
            (Steps(w) /\ pc[w] \in {"main", "search", "create"}) => queue' = queue]_vars

\* a resolve failed while the seeded queue was still whole
C18_Witness ==
    /\ Seeded # {}
    /\ queue = Seeded
    /\ \E w \in Workers : ResolveFailed(w) /\ phase[w] = "drain"

\* the items that w stored on the drive
StoredBy(w) ==
    {n \in files : n.id >= FirstFreeId /\ (n.id - FirstFreeId) % NumWorkers = w - 1}

\* C19: upload_files resolves the destination once: after the resolves of
\* the seeding there is at most one more, every file the worker uploads has
\* the folder that resolve returned as its parent, and the steps of the loop
\* neither resolve again nor create a folder.
C19_OneResolvePerDrain ==
    /\ [](\A w \in Workers :
            /\ Len(log[w]) <= (IF src[w] /\ ~overwrite[w] THEN 2 ELSE 1)
            /\ \A n \in StoredBy(w) :
                  n.mimeType = PlainFile =>
                      /\ phase[w] = "drain" /\ log[w] # <<>>
                      /\ n.parent = Last(log[w]).id
                      /\ n.parent = dst_dir_id[w])
    /\ [][\A w \in Workers :
            (Steps(w) /\ pc[w] \in {"spop", "upload"})
            => /\ log'[w] = log[w]
               /\ dst_dir_id'[w] = dst_dir_id[w]
               /\ made'[w] = made[w]
               /\ {n \in files' : n.mimeType = Folder} = {n \in files : n.mimeType = Folder}
               /\ pc'[w] \in {"spop", "upload", "done"}]_vars

\* a run that seeded two files, resolved for the seeding and again for the
\* upload, and has uploaded both files into one folder
C19_Witness ==
    \E w \in Workers :
        /\ pc[w] = "done" /\ count[w] = 2 /\ Len(log[w]) = 2
        /\ Cardinality({n \in StoredBy(w) : n.mimeType = PlainFile}) = 2
        /\ \A n \in StoredBy(w) : n.mimeType = PlainFile => n.parent = dst_dir_id[w]

====
